---- MODULE Spec2Model ----
(***************************************************************************)
(* Model of the MAY_BLOCK late lint pass (clippy_lints/src/may_block.rs).  *)
(*                                                                         *)
(* The host hands every compiled body to MayBlock::check_body.  For an     *)
(* async body the pass dumps the body with dbg!, fetches the owner's       *)
(* type-check results and walks generator_interior_types, linting every    *)
(* cause whose type is an ADT whose definition path is THREAD_SLEEP.       *)
(***************************************************************************)
EXTENDS Integers, Sequences, FiniteSets

VARIABLES crate, pc, cur, i, out, from, trace, looked, entered,
          sink, stderr, results, completed, runs

vars == <<crate, pc, cur, i, out, from, trace, looked, entered,
          sink, stderr, results, completed, runs>>

(***************************************************************************)
(* Bounds                                                                  *)
(***************************************************************************)
\* longest generator_interior_types list of the single-pass specification
MaxCauses == 2
\* check_body invocations per exploration
MaxRuns == 2
\* longest generator_interior_types list of the concurrent specification
MaxCausesConc == 2
\* bodies of the crate in the concurrent specification
NumBodies == 2
\* pass instances running side by side in the concurrent specification
NumWorkers == 2
\* check_body invocations per exploration of the concurrent specification
MaxRunsConc == 3

(***************************************************************************)
(* Host data: definitions, types, spans                                    *)
(***************************************************************************)
\* Option<Span>::None
NoSpan == 0

\* declaration spans of interior values
Spans == {1, 2}

\* scope spans of interior values (None or one of two source ranges)
ScopeSpans == {NoSpan, 3, 4}

\* body.value.span of the k-th body of the crate
BodySpan(k) == 10 + k

\* Option<GeneratorKind> of a body
GeneratorKinds == {"None", "Gen", "AsyncBlock", "AsyncClosure", "AsyncFn"}

\* definitions the host knows: the sleep function itself, and ADTs whose
\* paths equal, precede, extend or nearly equal the function's path
AdtDefs == {"adt_std_thread_sleep", "adt_my_thread_sleep",
            "adt_std_thread", "adt_std_thread_sleep_Guard"}

FnDefs == {"fn_std_thread_sleep"}

\* cx.get_def_path(did): crate name followed by the item's path segments
get_def_path(did) ==
  CASE did = "fn_std_thread_sleep"        -> <<"std", "thread", "sleep">>
    [] did = "adt_std_thread_sleep"       -> <<"std", "thread", "sleep">>
    [] did = "adt_my_thread_sleep"        -> <<"my", "thread", "sleep">>
    [] did = "adt_std_thread"             -> <<"std", "thread">>
    [] did = "adt_std_thread_sleep_Guard" -> <<"std", "thread", "sleep", "Guard">>

\* ty.kind(): an ADT of some definition, the unit tuple, or a fn item type
Unit == [kind |-> "Tuple", did |-> "none"]

Types == {[kind |-> "Adt", did |-> d] : d \in AdtDefs}
           \cup {Unit}
           \cup {[kind |-> "FnDef", did |-> d] : d \in FnDefs}

\* the type of the value a call of the function did evaluates to:
\* pub fn sleep(dur: Duration) returns ()
fn_output(did) == Unit

\* GeneratorInteriorTypeCause { ty, span, scope_span }
Causes == [ty : Types, span : Spans, scope_span : ScopeSpans]

CauseLists(n) == UNION {[1..m -> Causes] : m \in 0..n}

\* causes of the concurrent specification: the j-th cause of a body is
\* declared at span j and is either the registry-named ADT or the unit value
ConcCause(j, matches) ==
  [ty |-> IF matches THEN [kind |-> "Adt", did |-> "adt_std_thread_sleep"] ELSE Unit,
   span |-> j, scope_span |-> NoSpan]

ConcCauseLists(n) ==
  UNION {{[j \in 1..m |-> ConcCause(j, b[j])] : b \in [1..m -> BOOLEAN]} : m \in 0..n}

ConcKinds == {"None", "AsyncBlock"}

\* a compiled body with the type-check results of its owner
MkBody(k, kind, causes) ==
  [generator_kind |-> kind, span |-> BodySpan(k), generator_interior_types |-> causes]

(***************************************************************************)
(* The pass                                                                *)
(***************************************************************************)
\* paths::THREAD_SLEEP
THREAD_SLEEP == <<"std", "thread", "sleep">>

\* utils::match_def_path: same length and segment-wise equal
match_def_path(did, syms) ==
  LET path == get_def_path(did)
  IN  /\ Len(path) = Len(syms)
      /\ \A n \in 1..Len(path) : path[n] = syms[n]

is_blocking_suffix(did) ==
  LET path == get_def_path(did)
  IN  path[Len(path)] = THREAD_SLEEP[Len(THREAD_SLEEP)]

\* zip of the two paths without the length comparison
is_blocking_prefix(did) ==
  LET path == get_def_path(did)
      n == IF Len(path) < Len(THREAD_SLEEP) THEN Len(path) ELSE Len(THREAD_SLEEP)
  IN  \A m \in 1..n : path[m] = THREAD_SLEEP[m]

is_blocking_once(did) == match_def_path(did, THREAD_SLEEP) /\ Len(sink) = 0

\* fn is_blocking
is_blocking(did) == match_def_path(did, THREAD_SLEEP)

is_async_any_generator(kind) == kind # "None"

\* if let Some(GeneratorKind::Async(Block | Closure | Fn)) = body.generator_kind
is_async(kind) == kind \in {"AsyncBlock", "AsyncClosure", "AsyncFn"}

has_def_any(ty) == ty.kind \in {"Adt", "FnDef"}

\* if let rustc_middle::ty::Adt(adt, _) = ty_cause.ty.kind()
is_adt(ty) == ty.kind = "Adt"

note_span_body(ty_cause, span) == span

\* ty_cause.scope_span.or(Some(span))
note_span(ty_cause, span) ==
  IF ty_cause.scope_span # NoSpan THEN ty_cause.scope_span ELSE span

\* span_lint_and_note(cx, MAY_BLOCK, ty_cause.span, .., note_span, ..)
span_lint_and_note(ty_cause, span) ==
  [lint |-> "MAY_BLOCK", span |-> ty_cause.span, note_span |-> note_span(ty_cause, span)]

\* body of the for loop: the diagnostics one cause produces
lint_cause(ty_cause, span) ==
  IF is_adt(ty_cause.ty) /\ is_blocking(ty_cause.ty.did)
  THEN <<span_lint_and_note(ty_cause, span)>>
  ELSE <<>>

iter_index_rev(n, step) == n + 1 - step

\* for ty_cause in ty_causes: the element the step-th iteration visits
iter_index(n, step) == step

Body(w) == crate[cur[w]]

(***************************************************************************)
(* Initial states                                                          *)
(***************************************************************************)
InitWith(nb, nw, kinds, lists) ==
  /\ \E ks \in [1..nb -> kinds], ls \in [1..nb -> lists] :
        crate = [k \in 1..nb |-> MkBody(k, ks[k], ls[k])]
  /\ pc = [w \in 1..nw |-> "idle"]
  /\ cur = [w \in 1..nw |-> 1]
  /\ i = [w \in 1..nw |-> 0]
  /\ out = [w \in 1..nw |-> <<>>]
  /\ from = [w \in 1..nw |-> <<>>]
  /\ trace = [w \in 1..nw |-> <<>>]
  /\ looked = [w \in 1..nw |-> 0]
  /\ entered = [w \in 1..nw |-> 0]
  /\ sink = <<>>
  /\ stderr = <<>>
  /\ results = [k \in 1..nb |-> {}]
  /\ completed = [k \in 1..nb |-> 0]
  /\ runs = 0

\* one pass instance, one body, any generator kind and any cause list
Init == InitWith(1, 1, GeneratorKinds, CauseLists(MaxCauses))

\* several pass instances over a crate of several bodies
InitConc == InitWith(NumBodies, NumWorkers, ConcKinds, ConcCauseLists(MaxCausesConc))

RunLimit == IF Cardinality(DOMAIN pc) = 1 THEN MaxRuns ELSE MaxRunsConc

(***************************************************************************)
(* Actions                                                                 *)
(***************************************************************************)
\* MayBlock::check_body up to the call of check_interior_types
CheckBody(w, k) ==
  /\ pc[w] = "idle"
  /\ runs < RunLimit
  /\ runs' = runs + 1
  /\ cur' = [cur EXCEPT ![w] = k]
  /\ out' = [out EXCEPT ![w] = <<>>]
  /\ from' = [from EXCEPT ![w] = <<>>]
  /\ trace' = [trace EXCEPT ![w] = <<>>]
  /\ IF is_async(crate[k].generator_kind)
     THEN /\ stderr' = Append(stderr, k)
          /\ looked' = [looked EXCEPT ![w] = 1]
          /\ entered' = [entered EXCEPT ![w] = 1]
          /\ i' = [i EXCEPT ![w] = 1]
          /\ pc' = [pc EXCEPT ![w] = "loop"]
     ELSE /\ looked' = [looked EXCEPT ![w] = 0]
          /\ entered' = [entered EXCEPT ![w] = 0]
          /\ i' = [i EXCEPT ![w] = 0]
          /\ pc' = [pc EXCEPT ![w] = "done"]
          /\ UNCHANGED stderr
  /\ UNCHANGED <<crate, sink, results, completed>>

\* one iteration of the for loop of check_interior_types
LoopStep(w) ==
  /\ pc[w] = "loop"
  /\ i[w] <= Len(Body(w).generator_interior_types)
  /\ LET causes == Body(w).generator_interior_types
         j == iter_index(Len(causes), i[w])
         ds == lint_cause(causes[j], Body(w).span)
     IN  /\ out' = [out EXCEPT ![w] = out[w] \o ds]
         /\ sink' = sink \o ds
         /\ from' = [from EXCEPT ![w] = IF ds = <<>> THEN from[w] ELSE Append(from[w], j)]
         /\ trace' = [trace EXCEPT ![w] = Append(trace[w], j)]
  /\ i' = [i EXCEPT ![w] = i[w] + 1]
  /\ UNCHANGED <<crate, pc, cur, looked, entered, stderr, results, completed, runs>>

\* the for loop is exhausted: check_interior_types and check_body return
LoopEnd(w) ==
  /\ pc[w] = "loop"
  /\ i[w] > Len(Body(w).generator_interior_types)
  /\ pc' = [pc EXCEPT ![w] = "done"]
  /\ UNCHANGED <<crate, cur, i, out, from, trace, looked, entered,
                 sink, stderr, results, completed, runs>>

\* the host takes the run's diagnostics and is ready for the next body
HostNext(w) ==
  /\ pc[w] = "done"
  /\ results' = [results EXCEPT ![cur[w]] = results[cur[w]] \cup {out[w]}]
  /\ completed' = [completed EXCEPT ![cur[w]] = completed[cur[w]] + 1]
  /\ pc' = [pc EXCEPT ![w] = "idle"]
  /\ UNCHANGED <<crate, cur, i, out, from, trace, looked, entered, sink, stderr, runs>>

Next ==
  \/ \E w \in DOMAIN pc, k \in DOMAIN crate : CheckBody(w, k)
  \/ \E w \in DOMAIN pc : LoopStep(w)
  \/ \E w \in DOMAIN pc : LoopEnd(w)
  \/ \E w \in DOMAIN pc : HostNext(w)

Spec == Init /\ [][Next]_vars

SpecConc == InitConc /\ [][Next]_vars

(***************************************************************************)
(* Vocabulary of the properties                                            *)
(***************************************************************************)
\* the bodies the specification calls asynchronous
Asynchronous(body) == body.generator_kind \in {"AsyncBlock", "AsyncClosure", "AsyncFn"}

\* a nominal type whose fully-qualified path is exactly a registry entry
MatchesRegistry(ty) == ty.kind = "Adt" /\ get_def_path(ty.did) = THREAD_SLEEP

\* positions of the interior values that match the registry
MatchingIdx(causes) == {j \in 1..Len(causes) : MatchesRegistry(causes[j].ty)}

\* the matching interior values in the order the host records them
MatchingInOrder(causes) ==
  LET Test(c) == MatchesRegistry(c.ty) IN SelectSeq(causes, Test)

Finished(w) == pc[w] = "done"

CausesOf(w) == Body(w).generator_interior_types

(***************************************************************************)
(* Properties                                                              *)
(***************************************************************************)
\* C1: when check_body has finished an asynchronous body, it has emitted
\* exactly one diagnostic for each interior value whose nominal type matches
\* the registry and none for any other value; with exactly one matching
\* value the single diagnostic's primary span is that value's span.
C1_OneDiagnosticPerMatch ==
  \A w \in DOMAIN pc :
    (Finished(w) /\ Asynchronous(Body(w))) =>
      LET M == MatchingIdx(CausesOf(w))
      IN  /\ Len(out[w]) = Cardinality(M)
          /\ Len(from[w]) = Len(out[w])
          /\ {from[w][n] : n \in 1..Len(from[w])} = M
          /\ \A n \in 1..Len(out[w]) : out[w][n].span = CausesOf(w)[from[w][n]].span
          /\ Cardinality(M) = 1 =>
               out[w][1].span = CausesOf(w)[CHOOSE j \in M : TRUE].span

C1_Witness ==
  \E w \in DOMAIN pc :
    /\ Finished(w) /\ Asynchronous(Body(w))
    /\ Len(CausesOf(w)) = 2
    /\ Cardinality(MatchingIdx(CausesOf(w))) = 1
    /\ CausesOf(w)[1].ty.kind = "FnDef"
    /\ CausesOf(w)[1].span # CausesOf(w)[2].span
    /\ Len(out[w]) = 1
    /\ out[w][1].span = CausesOf(w)[2].span

\* C2: an asynchronous body none of whose interior values matches the
\* registry gets no diagnostic, whether its list is empty, holds non-nominal
\* types or holds unregistered nominal types; every value is still visited.
C2_NoMatchNoDiagnostic ==
  \A w \in DOMAIN pc :
    (pc[w] \in {"loop", "done"} /\ Asynchronous(Body(w))
       /\ MatchingIdx(CausesOf(w)) = {}) =>
      /\ out[w] = <<>>
      /\ Finished(w) => Len(trace[w]) = Len(CausesOf(w))

C2_Witness ==
  \E w \in DOMAIN pc :
    /\ Finished(w) /\ Asynchronous(Body(w))
    /\ Len(CausesOf(w)) = 2
    /\ CausesOf(w)[1].ty.kind = "Tuple"
    /\ CausesOf(w)[2].ty = [kind |-> "Adt", did |-> "adt_my_thread_sleep"]
    /\ trace[w] = <<1, 2>>
    /\ out[w] = <<>>

\* C3: every emitted diagnostic has a secondary span; it is the scope span
\* of the interior value that caused it when that value has one, and the
\* span of the enclosing body otherwise.
C3_SecondarySpan ==
  \A w \in DOMAIN pc :
    \A n \in 1..Len(out[w]) :
      LET c == CausesOf(w)[from[w][n]]
      IN  /\ out[w][n].note_span # NoSpan
          /\ c.scope_span # NoSpan => out[w][n].note_span = c.scope_span
          /\ c.scope_span = NoSpan => out[w][n].note_span = Body(w).span

C3_Witness ==
  \E w \in DOMAIN pc :
    /\ Finished(w)
    /\ Len(out[w]) = 2
    /\ CausesOf(w)[1].scope_span = NoSpan
    /\ CausesOf(w)[2].scope_span # NoSpan
    /\ out[w][1].note_span = Body(w).span
    /\ out[w][2].note_span = CausesOf(w)[2].scope_span

\* C4: for a body that is not asynchronous check_body emits nothing, never
\* looks up the type-check results and never enters check_interior_types.
C4_SyncBodyIgnored ==
  \A w \in DOMAIN pc :
    (pc[w] # "idle" /\ ~Asynchronous(Body(w))) =>
      /\ out[w] = <<>>
      /\ looked[w] = 0
      /\ entered[w] = 0
      /\ trace[w] = <<>>

C4_Witness ==
  \E w \in DOMAIN pc :
    /\ Finished(w)
    /\ Body(w).generator_kind = "Gen"
    /\ MatchingIdx(CausesOf(w)) # {}
    /\ out[w] = <<>>
    /\ looked[w] = 0

\* C5: is_blocking holds of a nominal type only when its path equals the
\* registry entry segment for segment; a path that differs in an earlier
\* segment, or is a proper prefix or extension, never matches and never
\* leads to a diagnostic.
C5_ExactPathMatch ==
  /\ \A d \in AdtDefs : is_blocking(d) <=> get_def_path(d) = THREAD_SLEEP
  /\ \A w \in DOMAIN pc :
       \A n \in 1..Len(from[w]) : MatchesRegistry(CausesOf(w)[from[w][n]].ty)

C5_Witness ==
  \E w \in DOMAIN pc :
    /\ Finished(w) /\ Asynchronous(Body(w))
    /\ Len(CausesOf(w)) = 2
    /\ CausesOf(w)[1].ty.did = "adt_std_thread"
    /\ CausesOf(w)[2].ty.did = "adt_std_thread_sleep_Guard"
    /\ trace[w] = <<1, 2>>
    /\ out[w] = <<>>

\* C6 (as claimed): an async block whose only interior value is the result
\* of calling the registered sleep function gets exactly one diagnostic, at
\* that value's span.
ScenarioA(body) ==
  /\ body.generator_kind = "AsyncBlock"
  /\ Len(body.generator_interior_types) = 1
  /\ body.generator_interior_types[1].ty = fn_output("fn_std_thread_sleep")

C6_ScenarioA_AsClaimed ==
  \A w \in DOMAIN pc :
    (Finished(w) /\ ScenarioA(Body(w))) =>
      /\ Len(out[w]) = 1
      /\ out[w][1].span = CausesOf(w)[1].span

\* C8: all completed runs of check_body on one body handed the host the same
\* list of diagnostics, whatever ran before, in between or alongside.
C8_Deterministic ==
  \A k \in DOMAIN crate : Cardinality(results[k]) <= 1

C8_Witness ==
  /\ Cardinality(DOMAIN pc) > 1
  /\ completed[1] >= 2
  /\ completed[2] >= 1
  /\ \E ds \in results[1] : Len(ds) >= 1
  /\ \E ds \in results[2] : Len(ds) >= 1

\* C9: the loop visits the causes once each in recorded order, and the
\* diagnostics of a body come out in the order of their causes.
C9_OrderPreserved ==
  \A w \in DOMAIN pc :
    (pc[w] \in {"loop", "done"} /\ Asynchronous(Body(w))) =>
      /\ trace[w] = [n \in 1..(i[w] - 1) |-> n]
      /\ \A m, n \in 1..Len(from[w]) : m < n => from[w][m] < from[w][n]
      /\ Finished(w) =>
           /\ Len(trace[w]) = Len(CausesOf(w))
           /\ [n \in 1..Len(out[w]) |-> out[w][n].span]
                = [n \in 1..Len(MatchingInOrder(CausesOf(w))) |->
                     MatchingInOrder(CausesOf(w))[n].span]

C9_Witness ==
  \E w \in DOMAIN pc :
    /\ Finished(w)
    /\ Len(out[w]) = 2
    /\ out[w][1].span # out[w][2].span
    /\ out[w][1].span = CausesOf(w)[1].span
    /\ out[w][2].span = CausesOf(w)[2].span

\* C10 (as claimed): processing a body writes to no output stream other
\* than the diagnostic sink; in particular the body is never dumped.
C10_NoDump_AsClaimed == stderr = <<>>

====
